---- MODULE Spec2Model ----
(***************************************************************************)
(* State-machine model of the simplicial-complex generators of            *)
(* xgi/generators/simplicial_complexes.py and of to_encapsulation_dag as  *)
(* exercised by tests/convert/test_encapsulation_dag.py.                  *)
(*                                                                         *)
(* Probabilities and uniform draws are integers counted in quarters:      *)
(* One = 4 stands for 1.0, a draw lies in 0 .. One-1, i.e. in [0, 1).      *)
(* A simplicial complex is the set of its faces (non-empty node sets); a  *)
(* node is the face {v}.                                                   *)
(***************************************************************************)
EXTENDS Integers, FiniteSets, Sequences, TLC

VARIABLES npState, pyState, call, result, err, first, dag

vars == <<npState, pyState, call, result, err, first, dag>>

-----------------------------------------------------------------------------
(* Bounds of the model *)

\* nodes of a graph or of a random complex; largest max_order; longest ps of
\* random_simplicial_complex and of flag_complex; largest seed; period of a
\* random stream
MaxN == 3
MaxOrder == 2
MaxPs == 2
FlagMaxPs == 1
MaxSeed == 0
RngPeriod == 4
\* the same for the wide runs of flag_complex
WideN == 4
WideOrder == 3
WidePs == 2
\* edges and nodes of a hypergraph
MaxEdges == 3
MaxHNodes == 3

-----------------------------------------------------------------------------
(* Values *)

None == -1
One == 4

\* -0.5, 0, 0.5, 1, 1.5
Probs == {-2, 0, 2, 4, 6}

Seeds == {None} \cup (0 .. MaxSeed)

RECURSIVE SeqsUpTo(_, _)
SeqsUpTo(S, n) ==
    IF n = 0 THEN {<< >>}
    ELSE LET shorter == SeqsUpTo(S, n - 1)
         IN shorter \cup {Append(q, x) : q \in {r \in shorter : Len(r) = n - 1}, x \in S}

NodesOf(N) == 0 .. (N - 1)

\* combinations(nodes, k), as sets
Combos(nodes, k) == {c \in SUBSET nodes : Cardinality(c) = k}

\* scipy.special.comb(N, k, exact=True)
comb(N, k) == Cardinality(Combos(NodesOf(N), k))

Min(S) == CHOOSE x \in S : \A y \in S : x <= y

\* the order in which itertools.combinations yields two combinations of one size
LexLess(a, b) ==
    /\ a # b
    /\ Min((a \ b) \cup (b \ a)) \in a

\* 1-based position of c among the combinations in cs
Rank(c, cs) == 1 + Cardinality({x \in cs : LexLess(x, c)})

-----------------------------------------------------------------------------
(* The seedable uniform samplers: numpy's global stream and Python's       *)
(* global random stream                                                    *)

\* numpy.random.seed(seed) / random.seed(seed)
SeedState(seed) == (2 * seed + 1) % RngPeriod

GenNext(s) == (s + 1) % RngPeriod

RECURSIVE Adv(_, _)
Adv(s, k) == IF k = 0 THEN s ELSE Adv(GenNext(s), k - 1)

\* the value a stream yields on entering state s: 0.0, 0.25 or 0.75
GenValue(s) == CASE s % 3 = 0 -> 0
                 [] s % 3 = 1 -> 1
                 [] OTHER -> 3

\* the k-th draw (k >= 1) of a stream in state s
DrawAt(s, k) == GenValue(Adv(s, k))

\* the keep test of the samplers: draw <= p
Keep(draw, p) == draw <= p

-----------------------------------------------------------------------------
(* SubfaceEnumerator and ComplexBuilder *)

NoComplex == {{}}

\* subfaces(edges, order): the sub-edges of exactly order+1 nodes
subfaces(edges, order) ==
    UNION {Combos(e, order + 1) : e \in edges}

\* subfaces(edges, order) fails when no parent edge is large enough
SubfacesFails(edges, order) ==
    /\ edges # {}
    /\ \A e \in edges : order > Cardinality(e) - 1

\* subfaces(edges, order=None) together with the edges themselves
Closure(simplices) ==
    UNION {(SUBSET s) \ {{}} : s \in simplices}

add_nodes_from(S, nodes) == S \cup {{v} : v \in nodes}

\* SimplicialComplex.add_simplices_from(simplices, max_order)
add_simplices_from(S, simplices, max_order) ==
    LET truncated ==
            UNION {IF max_order # None /\ Cardinality(s) - 1 > max_order
                   THEN Combos(s, max_order + 1)
                   ELSE {s} : s \in simplices}
    IN S \cup Closure(truncated)

-----------------------------------------------------------------------------
(* Graphs and the graph services *)

NoGraph == [nodes |-> {}, edges |-> {{}}]

GraphsOn(n) == {[nodes |-> NodesOf(n), edges |-> E] : E \in SUBSET Combos(NodesOf(n), 2)}

GraphsUpTo(n) == UNION {GraphsOn(k) : k \in 0 .. n}

IsClique(G, c) == \A u \in c, v \in c : u # v => {u, v} \in G.edges

CliquesOf(G) == {c \in (SUBSET G.nodes) \ {{}} : IsClique(G, c)}

\* networkx.find_cliques(G): the maximal cliques
find_cliques(G) ==
    {c \in CliquesOf(G) : \A v \in G.nodes \ c : ~IsClique(G, c \cup {v})}

\* xgi.utils.find_triangles(G): the 3-node cliques
find_triangles(G) == {c \in CliquesOf(G) : Cardinality(c) = 3}

\* networkx.fast_gnp_random_graph(N, p, seed) drawing from a stream in state s
gnp_random_graph(N, p, s) ==
    LET pairs == Combos(NodesOf(N), 2)
    IN [nodes |-> NodesOf(N),
        edges |-> {e \in pairs : DrawAt(s, Rank(e, pairs)) < p}]

-----------------------------------------------------------------------------
(* The generators, as functions of their arguments and of the stream state *)

InvalidProbability(ps) == \E i \in 1 .. Len(ps) : ps[i] < 0 \/ ps[i] > One

RECURSIVE SumTo(_, _)
\* f[1] + ... + f[n]
SumTo(f, n) == IF n = 0 THEN 0 ELSE SumTo(f, n - 1) + f[n]

\* random_simplicial_complex: the simplices kept by the masks, the stream
\* being in state s when the first mask is drawn
rsc_simplices(N, ps, s) ==
    LET n_comb == [i \in 1 .. Len(ps) |-> comb(N, i + 1)]
        potential_simplices(i) == Combos(NodesOf(N), i + 1)
    IN UNION {{c \in potential_simplices(i) :
                  Keep(DrawAt(s, SumTo(n_comb, i - 1) + Rank(c, potential_simplices(i))),
                       ps[i])}
              : i \in 1 .. Len(ps)}

\* the number of values random_simplicial_complex draws
rsc_draws(N, ps) == SumTo([i \in 1 .. Len(ps) |-> comb(N, i + 1)], Len(ps))

\* mutant: the sampled simplices added as plain hyperedges, without subfaces
rsc_complex_unclosed(N, ps, s) ==
    add_nodes_from({}, NodesOf(N)) \cup rsc_simplices(N, ps, s)

\* random_simplicial_complex: the complex returned
rsc_complex(N, ps, s) ==
    add_simplices_from(add_nodes_from({}, NodesOf(N)), rsc_simplices(N, ps, s), None)

\* ps[: max_order - 1] of flag_complex (a negative stop counts from the end)
ps_slice(ps, max_order) ==
    LET stop == IF max_order - 1 >= 0
                THEN IF max_order - 1 < Len(ps) THEN max_order - 1 ELSE Len(ps)
                ELSE IF Len(ps) + (max_order - 1) > 0 THEN Len(ps) + (max_order - 1) ELSE 0
    IN SubSeq(ps, 1, stop)

\* flag_complex: max_cliques_to_add
flag_candidates(G, max_order) ==
    IF max_order # 0 /\ max_order # None
    THEN subfaces(find_cliques(G), max_order)
    ELSE find_cliques(G)

\* flag_complex: cliques_d[n], the candidates of n nodes
cliques_d(candidates, n) == {x \in candidates : Cardinality(x) = n}

\* flag_complex: the cliques promoted with probabilities ps, the stream being
\* in state s at the first draw
flag_promoted(G, max_order, ps, s) ==
    LET used == ps_slice(ps, max_order)
        candidates == flag_candidates(G, max_order)
        sizes == [i \in 1 .. Len(used) |-> Cardinality(cliques_d(candidates, i + 2))]
        promoted(i) ==
            LET cliques == cliques_d(candidates, i + 2)
                before == SumTo(sizes, i - 1)
            IN {el \in cliques : Keep(DrawAt(s, before + Rank(el, cliques)), used[i])}
    IN UNION {promoted(i) : i \in 1 .. Len(used)}

\* the number of values flag_complex draws
flag_draws(G, max_order, ps) ==
    LET used == ps_slice(ps, max_order)
        candidates == flag_candidates(G, max_order)
    IN SumTo([i \in 1 .. Len(used) |-> Cardinality(cliques_d(candidates, i + 2))], Len(used))

\* flag_complex: S after the nodes and the edges of G are added
flag_base(G) == add_simplices_from(add_nodes_from({}, G.nodes), G.edges, None)

\* flag_complex with ps absent or empty
flag_all(G, max_order) == add_simplices_from(flag_base(G), find_cliques(G), max_order)

\* flag_complex with a non-empty ps
flag_sampled(G, max_order, ps, s) ==
    add_simplices_from(flag_base(G), flag_promoted(G, max_order, ps, s), max_order)

\* flag_complex_d2: the triangles kept
d2_triangles(G, p2, s) ==
    LET triangles_empty == find_triangles(G)
    IN IF p2 # None
       THEN {el \in triangles_empty : Keep(DrawAt(s, Rank(el, triangles_empty)), p2)}
       ELSE triangles_empty

d2_draws(G, p2) == IF p2 # None THEN Cardinality(find_triangles(G)) ELSE 0

flag_complex_d2_of(G, p2, s) ==
    add_simplices_from(flag_base(G), d2_triangles(G, p2, s), None)

\* random_flag_complex: S built from the maximal cliques of G alone
rfc_complex(G, max_order) ==
    add_simplices_from(add_nodes_from({}, G.nodes), find_cliques(G), max_order)

-----------------------------------------------------------------------------
(* to_encapsulation_dag.  A hypergraph is its node set and a function from *)
(* edge-ids to non-empty node sets.  The implementation is not among the   *)
(* sources: what the test asserts is taken from the test, the rest from    *)
(* the design.                                                             *)

HNodeSets == (SUBSET NodesOf(MaxHNodes)) \ {{}}

\* the edges of a hypergraph of k edges: edge-ids 1 .. k
EdgeLists(k) == [1 .. k -> HNodeSets]

Members(edges) == UNION {edges[e] : e \in DOMAIN edges}

\* the hypergraph of these edges, with or without nodes outside every edge
Hypergraph(edges, extra_nodes) ==
    [nodes |-> IF extra_nodes THEN NodesOf(MaxHNodes) ELSE Members(edges), edges |-> edges]

NoHypergraph == [nodes |-> {}, edges |-> << >>]

Relations == {"inclusion", "immediate", "empirical"}

\* the DAG's nodes are the edge-ids, whatever the nodes of H
\* (test: set(L.nodes) == set(range(9)); no DAG node for an edge-less hypergraph)
\* mutant: the nodes of H taken for the nodes of the DAG
dag_nodes_from_H_nodes(H) == H.nodes

dag_nodes(H) == DOMAIN H.edges

\* mutant: equal node-sets encapsulate each other
EncapsulatedOrEqual(H, e1, e2) ==
    /\ e1 # e2
    /\ H.edges[e1] \subseteq H.edges[e2]

\* e1 is encapsulated by e2: a strict subset, on distinct edge-ids
Encapsulated(H, e1, e2) ==
    /\ e1 # e2
    /\ H.edges[e1] \subseteq H.edges[e2]
    /\ H.edges[e1] # H.edges[e2]

EncapsulationPairs(H) ==
    {pr \in (DOMAIN H.edges) \X (DOMAIN H.edges) : Encapsulated(H, pr[1], pr[2])}

\* mutant: the arc from the encapsulated edge to the encapsulating edge
ArcOfReversed(sub, sup) == <<sub, sup>>

\* the arc recording that sub is encapsulated by sup: the test finds the arcs
\* ("e2", "e1"), ("e2", "e3") where e2 encapsulates e1 and e3
ArcOf(sub, sup) == <<sup, sub>>

\* "inclusion": every containment
inclusion_arcs(H) == {ArcOf(pr[1], pr[2]) : pr \in EncapsulationPairs(H)}

\* mutant: edges of adjacent sizes joined without the subset test
immediate_arcs_any_adjacent(H) ==
    {ArcOf(pr[1], pr[2]) :
        pr \in {q \in (DOMAIN H.edges) \X (DOMAIN H.edges) :
                  /\ q[1] # q[2]
                  /\ Cardinality(H.edges[q[2]]) = Cardinality(H.edges[q[1]]) + 1}}

\* "immediate": the test's hypergraph has an edge with 4 successors under
\* "inclusion" and none under "immediate" (1 arc of 5 is left), which no covering
\* relation allows: the containments between edges of adjacent sizes are kept
immediate_arcs(H) ==
    {ArcOf(pr[1], pr[2]) :
        pr \in {q \in EncapsulationPairs(H) :
                  Cardinality(H.edges[q[2]]) = Cardinality(H.edges[q[1]]) + 1}}

\* "empirical": e2 encapsulates e1 and no smaller e3 encapsulating e1 is
\* itself encapsulated by e2
empirical_arcs(H) ==
    {ArcOf(pr[1], pr[2]) :
        pr \in {q \in EncapsulationPairs(H) :
                  ~\E e3 \in DOMAIN H.edges :
                      /\ Encapsulated(H, q[1], e3)
                      /\ Encapsulated(H, e3, q[2])
                      /\ Cardinality(H.edges[e3]) < Cardinality(H.edges[q[2]])}}

dag_arcs(H, relations) ==
    CASE relations = "inclusion" -> inclusion_arcs(H)
      [] relations = "immediate" -> immediate_arcs(H)
      [] relations = "empirical" -> empirical_arcs(H)

-----------------------------------------------------------------------------
(* State *)

NoCall == [op |-> "none", N |-> None, G |-> NoGraph, max_order |-> None,
           ps |-> << >>, p |-> None, seed |-> None,
           H |-> NoHypergraph, relations |-> "none"]

\* first: a seeded call of random_simplicial_complex remembered with what it
\* returned, and whether other calls have returned since
NoFirst == [N |-> None, ps |-> << >>, seed |-> None, result |-> NoComplex,
            err |-> "none", between |-> FALSE]

NoDag == [nodes |-> {}, arcs |-> {}]

RngStates == 0 .. (RngPeriod - 1)

Init ==
    /\ npState \in RngStates
    /\ pyState \in RngStates
    /\ call = NoCall
    /\ result = NoComplex
    /\ err = "none"
    /\ first = NoFirst
    /\ dag = NoDag

Idle == call.op = "none"

\* mutant: the seed is not applied
SeededIgnored(seed, state) == state

\* "if seed is not None: seed the stream": the state the call draws from
Seeded(seed, state) == IF seed # None THEN SeedState(seed) ELSE state

-----------------------------------------------------------------------------
(* One action per generator call; Return hands the result to the caller *)

RandomSimplicialComplex(N, ps, seed) ==
    /\ Idle
    /\ LET s == Seeded(seed, npState)
       IN IF InvalidProbability(ps)
          THEN /\ npState' = s
               /\ err' = "InvalidProbability"
               /\ result' = NoComplex
          ELSE /\ npState' = Adv(s, rsc_draws(N, ps))
               /\ err' = "none"
               /\ result' = rsc_complex(N, ps, s)
    /\ call' = [NoCall EXCEPT !.op = "random_simplicial_complex",
                              !.N = N, !.ps = ps, !.seed = seed]
    /\ UNCHANGED <<pyState, first, dag>>

FlagComplex(G, max_order, ps, seed) ==
    /\ Idle
    /\ LET s == Seeded(seed, pyState)
       IN CASE ps = << >> ->
                 /\ pyState' = s
                 /\ err' = "none"
                 /\ result' = flag_all(G, max_order)
            [] ps # << >> /\ max_order = None ->
                 /\ pyState' = s
                 /\ err' = "TypeError"
                 /\ result' = NoComplex
            [] ps # << >> /\ max_order # None /\ max_order # 0
                  /\ SubfacesFails(find_cliques(G), max_order) ->
                 /\ pyState' = s
                 /\ err' = "InvalidOrder"
                 /\ result' = NoComplex
            [] OTHER ->
                 /\ pyState' = Adv(s, flag_draws(G, max_order, ps))
                 /\ err' = "none"
                 /\ result' = flag_sampled(G, max_order, ps, s)
    /\ call' = [NoCall EXCEPT !.op = "flag_complex", !.G = G,
                              !.max_order = max_order, !.ps = ps, !.seed = seed]
    /\ UNCHANGED <<npState, first, dag>>

FlagComplexD2(G, p2, seed) ==
    /\ Idle
    /\ LET s == Seeded(seed, pyState)
       IN /\ pyState' = Adv(s, d2_draws(G, p2))
          /\ err' = "none"
          /\ result' = flag_complex_d2_of(G, p2, s)
    /\ call' = [NoCall EXCEPT !.op = "flag_complex_d2", !.G = G, !.p = p2, !.seed = seed]
    /\ UNCHANGED <<npState, first, dag>>

\* the values fast_gnp_random_graph draws: none at the extremes
gnp_draws(N, p) == IF p <= 0 \/ p >= One THEN 0 ELSE comb(N, 2)

RandomFlagComplexD2(N, p, seed) ==
    /\ Idle
    /\ LET s == Seeded(seed, pyState)
           G == gnp_random_graph(N, p, s)
       IN IF p < 0 \/ p > One
          THEN /\ pyState' = s
               /\ err' = "InvalidProbability"
               /\ result' = NoComplex
               /\ call' = [NoCall EXCEPT !.op = "random_flag_complex_d2",
                                         !.N = N, !.p = p, !.seed = seed]
          ELSE /\ pyState' = IF seed # None THEN s ELSE Adv(s, gnp_draws(N, p))
               /\ err' = "none"
               /\ result' = flag_complex_d2_of(G, None, s)
               /\ call' = [NoCall EXCEPT !.op = "random_flag_complex_d2", !.G = G,
                                         !.N = N, !.p = p, !.seed = seed]
    /\ UNCHANGED <<npState, first, dag>>

RandomFlagComplex(N, p, max_order, seed) ==
    /\ Idle
    /\ LET G == gnp_random_graph(N, p, Seeded(seed, pyState))
       IN IF p < 0 \/ p > One
          THEN /\ pyState' = pyState
               /\ err' = "InvalidProbability"
               /\ result' = NoComplex
               /\ call' = [NoCall EXCEPT !.op = "random_flag_complex", !.N = N, !.p = p,
                                         !.max_order = max_order, !.seed = seed]
          ELSE /\ pyState' = IF seed # None THEN pyState
                                            ELSE Adv(pyState, gnp_draws(N, p))
               /\ err' = "none"
               /\ result' = rfc_complex(G, max_order)
               /\ call' = [NoCall EXCEPT !.op = "random_flag_complex", !.G = G, !.N = N,
                                         !.p = p, !.max_order = max_order, !.seed = seed]
    /\ UNCHANGED <<npState, first, dag>>

\* the caller takes the result; the next call starts from the streams as left
Return ==
    /\ ~Idle
    /\ call' = NoCall
    /\ result' = NoComplex
    /\ err' = "none"
    /\ dag' = NoDag
    /\ first' = IF first.seed # None THEN [first EXCEPT !.between = TRUE] ELSE first
    /\ UNCHANGED <<npState, pyState>>

\* as Return, the caller keeping the complex of a seeded random_simplicial_complex
ReturnRemember ==
    /\ call.op = "random_simplicial_complex"
    /\ call.seed # None
    /\ first = NoFirst
    /\ first' = [N |-> call.N, ps |-> call.ps, seed |-> call.seed, result |-> result,
                 err |-> err, between |-> FALSE]
    /\ call' = NoCall
    /\ result' = NoComplex
    /\ err' = "none"
    /\ UNCHANGED <<npState, pyState, dag>>

ToEncapsulationDag(H, relations) ==
    /\ Idle
    /\ dag' = [nodes |-> dag_nodes(H), arcs |-> dag_arcs(H, relations)]
    /\ call' = [NoCall EXCEPT !.op = "to_encapsulation_dag", !.H = H,
                              !.relations = relations]
    /\ UNCHANGED <<npState, pyState, result, err, first>>

OrdersUpTo(n) == {None} \cup (0 .. n)

Next ==
    \/ Idle /\ \E N \in 0 .. MaxN, ps \in SeqsUpTo(Probs, MaxPs), seed \in Seeds :
          RandomSimplicialComplex(N, ps, seed)
    \/ Idle /\ \E G \in GraphsUpTo(MaxN), max_order \in OrdersUpTo(MaxOrder),
          ps \in SeqsUpTo(Probs, FlagMaxPs), seed \in Seeds :
          FlagComplex(G, max_order, ps, seed)
    \/ Idle /\ \E G \in GraphsUpTo(MaxN), p2 \in Probs \cup {None}, seed \in Seeds :
          FlagComplexD2(G, p2, seed)
    \/ Idle /\ \E N \in 0 .. MaxN, p \in Probs, seed \in Seeds :
          RandomFlagComplexD2(N, p, seed)
    \/ Idle /\ \E N \in 0 .. MaxN, p \in Probs, max_order \in OrdersUpTo(MaxOrder), seed \in Seeds :
          RandomFlagComplex(N, p, max_order, seed)
    \/ Return

Spec == Init /\ [][Next]_vars

\* the streams play no part in to_encapsulation_dag
InitDag == Init /\ npState = 0 /\ pyState = 0

NextDag ==
    \/ Idle /\ \E k \in 0 .. MaxEdges, extra_nodes \in BOOLEAN, relations \in Relations :
          \E edges \in EdgeLists(k) :
            ToEncapsulationDag(Hypergraph(edges, extra_nodes), relations)
    \/ Return

SpecDag == InitDag /\ [][NextDag]_vars

\* flag_complex alone, on the graphs of WideN nodes
InitWide == Init /\ npState = 0

NextWide ==
    \/ Idle /\ \E G \in GraphsOn(WideN), max_order \in OrdersUpTo(WideOrder),
          ps \in SeqsUpTo(Probs, WidePs), seed \in Seeds :
          FlagComplex(G, max_order, ps, seed)
    \/ Return

SpecWide == InitWide /\ [][NextWide]_vars

\* repeated calls of random_simplicial_complex among other calls
SeedProbs == {0, 2}

InitSeed == Init /\ pyState = 0

NextSeed ==
    \/ Idle /\ \E N \in 0 .. MaxN, ps \in SeqsUpTo(SeedProbs, MaxPs), seed \in Seeds :
          RandomSimplicialComplex(N, ps, seed)
    \/ Idle /\ \E G \in GraphsOn(2), seed \in Seeds : FlagComplexD2(G, None, seed)
    \/ Return
    \/ ReturnRemember

SpecSeed == InitSeed /\ [][NextSeed]_vars

-----------------------------------------------------------------------------
(* Properties *)

GeneratorOps == {"random_simplicial_complex", "flag_complex", "flag_complex_d2",
                 "random_flag_complex_d2", "random_flag_complex"}

Returned(op) == call.op = op /\ err = "none"

DownwardClosed(S) == \A f \in S : \A t \in (SUBSET f) \ {{}} : t \in S

\* C1: every complex a generator returns is downward closed: with a simplex it
\* holds every non-empty subset of that simplex.
C1_DownwardClosure ==
    (call.op \in GeneratorOps /\ err = "none") => DownwardClosed(result)

\* flag_complex has promoted a triangle by a draw against ps[0]
C1_Witness ==
    /\ Returned("flag_complex")
    /\ call.ps # << >>
    /\ \E f \in result : Cardinality(f) = 3

SameCallAsFirst ==
    /\ call.op = "random_simplicial_complex"
    /\ call.seed # None
    /\ first.seed = call.seed
    /\ first.N = call.N
    /\ first.ps = call.ps

\* C2: a call of random_simplicial_complex with the N, ps and non-None seed of
\* an earlier call returns the same simplex set as that call, whatever calls
\* were made in between.
C2_Determinism ==
    SameCallAsFirst => (result = first.result /\ err = first.err)

\* the repeated call comes after other calls and returns a complex in which the
\* masks kept some edge and dropped another
C2_Witness ==
    /\ SameCallAsFirst
    /\ first.between
    /\ err = "none"
    /\ call.ps # << >>
    /\ call.ps[1] = 2
    /\ \E f \in result : Cardinality(f) = 2
    /\ \E f \in Combos(NodesOf(call.N), 2) : f \notin result

\* the probabilities a call was given
SuppliedProbabilities ==
    CASE call.op \in {"random_simplicial_complex", "flag_complex"} ->
            {call.ps[i] : i \in 1 .. Len(call.ps)}
      [] call.op \in {"flag_complex_d2", "random_flag_complex_d2", "random_flag_complex"} ->
            {call.p} \ {None}
      [] OTHER -> {}

\* C3: a generator given a probability below 0 or above 1 fails with
\* InvalidProbability and returns no complex.
C3_InvalidProbabilityRejected ==
    (\E q \in SuppliedProbabilities : q < 0 \/ q > One)
        => (err = "InvalidProbability" /\ result = NoComplex)

\* C7: random_flag_complex returns what flag_complex(G, max_order, ps=None)
\* returns on the graph G it generated.
C7_DelegatesToFlagComplex ==
    Returned("random_flag_complex") => result = flag_all(call.G, call.max_order)

CliquesOfSize(G, n) == {c \in CliquesOf(G) : Cardinality(c) = n}

\* C8: in flag_complex with a non-empty ps, ps[i] is the promotion probability
\* of the (i+3)-node cliques for i = 0 .. max_order-2: where it is 1 they are all
\* simplices of the result, and where all are 1 the result is that of ps absent.
C8_PsPerOrder ==
    (Returned("flag_complex") /\ call.ps # << >> /\ call.max_order # None) =>
        /\ \A i \in 0 .. (call.max_order - 2) :
              (i + 1 <= Len(call.ps) /\ call.ps[i + 1] = One)
                  => CliquesOfSize(call.G, i + 3) \subseteq result
        /\ (/\ Len(call.ps) >= call.max_order - 1
            /\ \A i \in 0 .. (call.max_order - 2) : call.ps[i + 1] = One)
               => result = flag_all(call.G, call.max_order)

\* C10: with probability 0 no candidate is kept and with probability 1 every
\* candidate is kept, whatever the draws.
C10_ExactAtExtremes ==
    /\ (Returned("flag_complex_d2") /\ call.p = 0) => result = flag_base(call.G)
    /\ (Returned("flag_complex_d2") /\ call.p = One)
           => result = flag_complex_d2_of(call.G, None, 0)
    /\ (Returned("flag_complex") /\ call.max_order = 2 /\ call.ps = <<0>>)
           => result = flag_base(call.G)
    /\ (Returned("flag_complex") /\ call.max_order = 2 /\ call.ps = <<One>>)
           => result = flag_all(call.G, 2)
    /\ (Returned("random_simplicial_complex") /\ call.ps # << >>) =>
           /\ call.ps[Len(call.ps)] = 0 =>
                 ~\E f \in result : Cardinality(f) = Len(call.ps) + 1
           /\ \A d \in 1 .. Len(call.ps) :
                 call.ps[d] = One => Combos(NodesOf(call.N), d + 1) \subseteq result

\* the arcs joining edge-ids linked by a path of arcs
RECURSIVE Reach(_, _)
Reach(arcs, acc) ==
    LET more == acc \cup {<<pr[1][1], pr[2][2]>> :
                              pr \in {q \in acc \X arcs : q[1][2] = q[2][1]}}
    IN IF more = acc THEN acc ELSE Reach(arcs, more)

TransitiveClosure(arcs) == Reach(arcs, arcs)

DagOf(relations) == call.op = "to_encapsulation_dag" /\ call.relations = relations

EdgeIds == DOMAIN call.H.edges

\* C4: the nodes of the DAG are exactly the edge-ids of H, under every relations
\* value; a hypergraph without edges gives no node and no arc.
C4_NodesAreEdgeIds ==
    call.op = "to_encapsulation_dag" =>
        /\ dag.nodes = EdgeIds
        /\ EdgeIds = {} => (dag.nodes = {} /\ dag.arcs = {})

\* H has nodes, an edge in no arc, and an arc
C4_Witness ==
    /\ call.op = "to_encapsulation_dag"
    /\ call.H.nodes # {}
    /\ dag.arcs # {}
    /\ \E e \in dag.nodes : \A a \in dag.arcs : a[1] # e /\ a[2] # e

\* C5, as claimed: under "inclusion" the arc e1 -> e2 is there exactly when
\* node-set(e1) is a strict subset of node-set(e2), pointing from the
\* encapsulated edge to the encapsulating edge.
C5_ArcsPointToEncapsulator ==
    DagOf("inclusion") =>
        \A e1 \in EdgeIds, e2 \in EdgeIds :
            e1 # e2 => (<<e1, e2>> \in dag.arcs <=> Encapsulated(call.H, e1, e2))

\* C5, amended: under "inclusion" the arc e2 -> e1 is there exactly when
\* node-set(e1) is a strict subset of node-set(e2), pointing from the
\* encapsulating edge to the encapsulated edge; no other arc is there.
C5_ArcsPointToEncapsulated ==
    DagOf("inclusion") =>
        /\ \A e1 \in EdgeIds, e2 \in EdgeIds :
              e1 # e2 => (<<e2, e1>> \in dag.arcs <=> Encapsulated(call.H, e1, e2))
        /\ \A a \in dag.arcs : a[1] \in EdgeIds /\ a[2] \in EdgeIds /\ a[1] # a[2]

\* edge 2 encapsulates the incomparable edges 1 and 3: the arcs are 2 -> 1, 2 -> 3
C5_Witness ==
    /\ DagOf("inclusion")
    /\ EdgeIds = {1, 2, 3}
    /\ Encapsulated(call.H, 1, 2)
    /\ Encapsulated(call.H, 3, 2)
    /\ ~(call.H.edges[1] \subseteq call.H.edges[3])
    /\ ~(call.H.edges[3] \subseteq call.H.edges[1])
    /\ dag.arcs = {<<2, 1>>, <<2, 3>>}

C9_Acyclic ==
    call.op = "to_encapsulation_dag" =>
        /\ \A a \in dag.arcs : a[1] # a[2] /\ <<a[2], a[1]>> \notin dag.arcs
        /\ \A a \in TransitiveClosure(dag.arcs) : a[1] # a[2]

\* two edge-ids of equal node-sets, both encapsulated by a third edge
C9_Witness ==
    /\ call.op = "to_encapsulation_dag"
    /\ \E e1 \in EdgeIds, e2 \in EdgeIds :
          /\ e1 # e2
          /\ call.H.edges[e1] = call.H.edges[e2]
          /\ \E e3 \in EdgeIds : <<e3, e1>> \in dag.arcs /\ <<e3, e2>> \in dag.arcs

====
